---- MODULE Spec2Model ----
(***************************************************************************)
(* A model of the bike-share analysis tool (bikeshare.py and lib/*.py):    *)
(* the menu loop of main(), the month/weekday filter, and the statistical  *)
(* computations.  A table (DataFrame) is a record [cols, rows]; a row      *)
(* carries its index label, its two timestamps (hours since                *)
(* 2017-01-01 00:00) and its other columns.  Text that the program         *)
(* converts (typed input, the hour string, file paths) is a sequence of    *)
(* one-character strings; names that are only compared are TLA+ strings.   *)
(***************************************************************************)
EXTENDS Integers, Sequences, FiniteSets, TLC

VARIABLES
    pc,           \* position in main() (or in the function under check)
    disk,         \* the *.csv paths in the data folder, in glob order
    choices,      \* the list shown by the get_selection now prompting
    files_dict,   \* main: data_files_dict as a sequence of <<name, path>>
    file_path,    \* main: data_files_dict[choice], the file loaded
    loaded,       \* the table as loaded and converted (before filtering)
    data,         \* main: data
    month_dict,   \* get_filtered_data: month_dict as <<name, month>> pairs
    month,        \* get_filtered_data: month (None when not chosen)
    day_of_week,  \* get_filtered_data: day_of_week (None when not chosen)
    last_sel,     \* what the last get_selection that returned did
    result,       \* results of the calc_* calls made, in call order
    out,          \* sections printed so far in this cycle
    err,          \* the uncaught exception that ended the process
    row_i         \* show_raw_data: i

vars == <<pc, disk, choices, files_dict, file_path, loaded, data, month_dict,
          month, day_of_week, last_sel, result, out, err, row_i>>

(***************************************************************************)
(* Python values                                                           *)
(***************************************************************************)
\* None, and a value that is not None.
None == <<>>
Some(v) == <<v>>

\* The outcome of a call: a returned value or a raised exception.
Return(v) == [exc |-> "none", val |-> <<v>>]
Raise(e) == [exc |-> e, val |-> <<>>]
Raised(r) == r.exc # "none"
Val(r) == r.val[1]

Range(s) == {s[i] : i \in DOMAIN s}

Max(a, b) == IF a >= b THEN a ELSE b
Min(a, b) == IF a <= b THEN a ELSE b

(***************************************************************************)
(* Text                                                                    *)
(***************************************************************************)
Digits == <<"0", "1", "2", "3", "4", "5", "6", "7", "8", "9">>
IsDigit(c) == c \in Range(Digits)
DigitVal(c) == CHOOSE d \in 0..9 : Digits[d + 1] = c

\* Characters str.isnumeric() accepts: the decimal digits and other numeric
\* characters such as superscript two, which int() does not accept.
Superscript2 == "sup2"
NumericChars == Range(Digits) \cup {Superscript2}

\* str.isnumeric(): non-empty and every character numeric.
isnumeric(s) == Len(s) > 0 /\ \A i \in DOMAIN s : s[i] \in NumericChars

\* int(s) for a string of decimal digits.
RECURSIVE DecimalVal(_)
DecimalVal(s) ==
    IF Len(s) = 0 THEN 0
    ELSE 10 * DecimalVal(SubSeq(s, 1, Len(s) - 1)) + DigitVal(s[Len(s)])

\* int(s): ValueError unless s is a non-empty string of decimal digits
\* (signs and blanks never reach int() here: isnumeric() rejects them).
int(s) ==
    IF Len(s) > 0 /\ \A i \in DOMAIN s : IsDigit(s[i])
    THEN Return(DecimalVal(s))
    ELSE Raise("ValueError")

\* str(n) for n >= 0.
RECURSIVE str(_)
str(n) ==
    IF n < 10 THEN <<Digits[n + 1]>>
    ELSE Append(str(n \div 10), Digits[(n % 10) + 1])

\* s[1:]
SliceFrom1(s) == IF Len(s) = 0 THEN <<>> ELSE Tail(s)

\* datetime.strptime(s, '%H'): one or two digits naming an hour 0..23, and
\* nothing else; the value is the hour.
strptime_H(s) ==
    IF Len(s) = 1 /\ IsDigit(s[1]) THEN Return(DigitVal(s[1]))
    ELSE IF /\ Len(s) = 2 /\ IsDigit(s[1]) /\ IsDigit(s[2])
            /\ DecimalVal(s) <= 23
         THEN Return(DecimalVal(s))
         ELSE Raise("ValueError")

\* dt.strftime('%I %p') of a datetime with hour h.
strftime_I_p(h) ==
    LET h12 == IF h % 12 = 0 THEN 12 ELSE h % 12
        I == IF h12 < 10 THEN <<"0">> \o str(h12) ELSE str(h12)
        p == IF h < 12 THEN <<"A", "M">> ELSE <<"P", "M">>
    IN  I \o <<" ">> \o p

Lowercase ==
    <<"a", "b", "c", "d", "e", "f", "g", "h", "i", "j", "k", "l", "m", "n",
      "o", "p", "q", "r", "s", "t", "u", "v", "w", "x", "y", "z">>
Uppercase ==
    <<"A", "B", "C", "D", "E", "F", "G", "H", "I", "J", "K", "L", "M", "N",
      "O", "P", "Q", "R", "S", "T", "U", "V", "W", "X", "Y", "Z">>
IsLetter(c) == c \in Range(Lowercase) \cup Range(Uppercase)
LowerChar(c) ==
    IF c \in Range(Uppercase)
    THEN Lowercase[CHOOSE i \in DOMAIN Uppercase : Uppercase[i] = c]
    ELSE c
UpperChar(c) ==
    IF c \in Range(Lowercase)
    THEN Uppercase[CHOOSE i \in DOMAIN Lowercase : Lowercase[i] = c]
    ELSE c

\* str.lower()
lower(s) == [i \in DOMAIN s |-> LowerChar(s[i])]

\* str.title(): a letter after a letter is lowered, any other letter raised.
title(s) ==
    [i \in DOMAIN s |->
        IF i > 1 /\ IsLetter(s[i - 1]) THEN LowerChar(s[i]) ELSE UpperChar(s[i])]

\* str.replace('_', ' ')
replace_underscores(s) == [i \in DOMAIN s |-> IF s[i] = "_" THEN " " ELSE s[i]]

\* s.split(sep)[0]: the text before the first sep (all of s without one).
BeforeFirst(s, sep) ==
    IF \E i \in DOMAIN s : s[i] = sep
    THEN SubSeq(s, 1, (CHOOSE i \in DOMAIN s :
                          s[i] = sep /\ \A j \in 1..(i - 1) : s[j] # sep) - 1)
    ELSE s

\* os.path.split(path)[-1]: the text after the last '/'.
AfterLast(s, sep) ==
    IF \E i \in DOMAIN s : s[i] = sep
    THEN SubSeq(s, (CHOOSE i \in DOMAIN s :
                       s[i] = sep /\ \A j \in (i + 1)..Len(s) : s[j] # sep) + 1,
                Len(s))
    ELSE s

\* seq[i] with Python's indexing: negative i counts from the end.
PyIndex(seq, i) ==
    IF 0 <= i /\ i < Len(seq) THEN Return(seq[i + 1])
    ELSE IF i < 0 /\ 0 - i <= Len(seq) THEN Return(seq[Len(seq) + i + 1])
    ELSE Raise("IndexError")

\* Order of the names the tables use, as Python compares strings.
SortedNames == <<"A", "B", "C", "Customer", "Female", "Male", "Subscriber">>
NameRank(s) == CHOOSE i \in DOMAIN SortedNames : SortedNames[i] = s

(***************************************************************************)
(* Timestamps: hours since 2017-01-01 00:00 (a Sunday), within 2017        *)
(***************************************************************************)
DaysBeforeMonth == <<0, 31, 59, 90, 120, 151, 181, 212, 243, 273, 304, 334, 365>>

\* Series.dt.month
dt_month(t) ==
    LET d == t \div 24
    IN  CHOOSE m \in 1..12 : DaysBeforeMonth[m] <= d /\ d < DaysBeforeMonth[m + 1]

\* Series.dt.dayofweek (Monday = 0)
dt_dayofweek(t) == (6 + (t \div 24)) % 7

\* Series.dt.hour
dt_hour(t) == t % 24

\* calendar.month_name[1..12] and calendar.day_name[0..6]
month_name ==
    <<"January", "February", "March", "April", "May", "June", "July",
      "August", "September", "October", "November", "December">>
day_name ==
    <<"Monday", "Tuesday", "Wednesday", "Thursday", "Friday", "Saturday",
      "Sunday">>

(***************************************************************************)
(* Columns                                                                 *)
(***************************************************************************)
COLS ==
    [start_time |-> "Start Time", end_time |-> "End Time",
     duration |-> "Trip Duration", start_station |-> "Start Station",
     end_station |-> "End Station", user_type |-> "User Type",
     gender |-> "Gender", birth_year |-> "Birth Year"]

AllCols == {COLS[k] : k \in DOMAIN COLS}

\* A missing value (NaN) of a column, and a present one.
NaN == None

(***************************************************************************)
(* Series reductions                                                       *)
(***************************************************************************)
\* The values of a sequence without the missing ones, unwrapped.
DropNa(s) == LET ix == {i \in DOMAIN s : s[i] # NaN} IN
    [k \in 1..Cardinality(ix) |->
        s[CHOOSE i \in ix : Cardinality({j \in ix : j < i}) = k - 1][1]]

Count(v, s) == Cardinality({i \in DOMAIN s : s[i] = v})

\* A finite set as the sequence sorted by rank (a function giving each
\* element its place in the order of its type).
Sorted(S, rank) ==
    [k \in 1..Cardinality(S) |->
        CHOOSE x \in S : Cardinality({y \in S : rank[y] < rank[x]}) = k - 1]

\* The order of integers, and of names, on the values of s.
IntRank(s) == [v \in Range(s) |-> v]
NameRanks(s) == [v \in Range(s) |-> NameRank(v)]

\* Series.mode(): the most frequent values, sorted; empty for no values.
mode(s, rank) ==
    Sorted({v \in Range(s) : \A w \in Range(s) : Count(w, s) <= Count(v, s)},
           rank)

\* The distinct values of s in order of first appearance.
Unique(s) ==
    LET first == {i \in DOMAIN s : \A j \in 1..(i - 1) : s[j] # s[i]}
    IN  [k \in 1..Cardinality(first) |->
            s[CHOOSE i \in first : Cardinality({j \in first : j < i}) = k - 1]]

\* The counts of the distinct values of s in order of first appearance.
value_counts_unsorted(s) ==
    LET u == Unique(s) IN [k \in DOMAIN u |-> <<u[k], Count(u[k], s)>>]

\* Series.value_counts() of the values that are not missing: <<value,
\* count>> per distinct value, by count descending; values of equal count
\* keep their order of first appearance.
value_counts(s) ==
    LET u == Unique(s)
        before(i, j) ==
            \/ Count(u[i], s) > Count(u[j], s)
            \/ Count(u[i], s) = Count(u[j], s) /\ i < j
        pos(i) == 1 + Cardinality({j \in DOMAIN u : before(j, i)})
    IN  [k \in DOMAIN u |->
            LET i == CHOOSE i \in DOMAIN u : pos(i) = k
            IN  <<u[i], Count(u[i], s)>>]

(***************************************************************************)
(* lib/stats.py                                                            *)
(***************************************************************************)
\* calc_popular_times(data): the three modes, then their display forms.
calc_popular_times(d) ==
    IF COLS.start_time \notin d.cols THEN Raise("KeyError")
    ELSE IF ~d.datetimes THEN Raise("AttributeError")
    ELSE
    LET months == [i \in DOMAIN d.rows |-> dt_month(d.rows[i].start)]
        days == [i \in DOMAIN d.rows |-> dt_dayofweek(d.rows[i].start)]
        hours == [i \in DOMAIN d.rows |-> dt_hour(d.rows[i].start)]
    IN  \* .mode()[0] of a Series without values
        IF Len(d.rows) = 0 THEN Raise("KeyError")
        ELSE
        LET m == mode(months, IntRank(months))[1]
            w == mode(days, IntRank(days))[1]
            h == mode(hours, IntRank(hours))[1]
            dt == strptime_H(SliceFrom1(str(h)))
        IN  IF Raised(dt) THEN dt
            ELSE Return([month |-> month_name[m],
                         day_of_week |-> day_name[w + 1],
                         hour |-> strftime_I_p(Val(dt))])

\* Order of (start station, end station) keys, as groupby sorts them.
PairRank(S) ==
    [p \in S |-> NameRank(p[1]) * (Len(SortedNames) + 1) + NameRank(p[2])]

\* groupby_size with sort=False: the keys in their order of first appearance.
groupby_size_unsorted(d) ==
    LET keys == [i \in DOMAIN d.rows |-> <<d.rows[i].ss, d.rows[i].es>>]
        uk == Unique(keys)
    IN  [k \in DOMAIN uk |-> <<uk[k], Count(uk[k], keys)>>]

\* data.groupby([start, end]).size(): <<key, size>> per pair, keys sorted.
groupby_size(d) ==
    LET keys == [i \in DOMAIN d.rows |-> <<d.rows[i].ss, d.rows[i].es>>]
        sk == Sorted(Range(keys), PairRank(Range(keys)))
    IN  [k \in DOMAIN sk |-> <<sk[k], Count(sk[k], keys)>>]

\* Series.idxmax(): the label of the first occurrence of the maximum.
idxmax(sz) ==
    LET best == CHOOSE k \in DOMAIN sz :
                    /\ \A j \in DOMAIN sz : sz[j][2] <= sz[k][2]
                    /\ \A j \in 1..(k - 1) : sz[j][2] < sz[k][2]
    IN  sz[best][1]

\* calc_popular_stations(data)
calc_popular_stations(d) ==
    IF COLS.start_station \notin d.cols \/ COLS.end_station \notin d.cols
    THEN Raise("KeyError")
    ELSE IF Len(d.rows) = 0 THEN Raise("KeyError")
    ELSE
    LET ss == [i \in DOMAIN d.rows |-> d.rows[i].ss]
        es == [i \in DOMAIN d.rows |-> d.rows[i].es]
    IN  Return([start_station |-> mode(ss, NameRanks(ss))[1],
                end_station |-> mode(es, NameRanks(es))[1],
                trip |-> idxmax(groupby_size(d))])

\* str() of a Timedelta of sec seconds, as its fields.
TimedeltaStr(sec) ==
    [days |-> sec \div 86400, hh |-> (sec % 86400) \div 3600,
     mm |-> (sec % 3600) \div 60, ss |-> sec % 60]

RECURSIVE SumSeq(_)
SumSeq(s) == IF Len(s) = 0 THEN 0 ELSE s[1] + SumSeq(Tail(s))

\* The stored 'Trip Duration' column, in seconds.
stored_durations(d) == [i \in DOMAIN d.rows |-> d.rows[i].dur]

\* data['End Time'] - data['Start Time'], in seconds.
Deltas(d) == [i \in DOMAIN d.rows |-> (d.rows[i].end - d.rows[i].start) * 3600]

\* calc_trip_durations(data); the mean of no rows is NaT.
calc_trip_durations(d) ==
    IF COLS.end_time \notin d.cols \/ COLS.start_time \notin d.cols
    THEN Raise("KeyError")
    ELSE IF ~d.datetimes THEN Raise("TypeError")
    ELSE Return([total_time |-> Some(TimedeltaStr(SumSeq(Deltas(d)))),
                 avg_time |-> IF Len(d.rows) = 0 THEN None
                              ELSE Some(TimedeltaStr(SumSeq(Deltas(d))
                                                     \div Len(d.rows)))])

\* int(Series): the value of a Series of length one, else TypeError.
int_series(s) == IF Len(s) = 1 THEN Return(s[1]) ELSE Raise("TypeError")

\* The birth-year branch of calc_user_unfo when the column is present.
birth_years(d) ==
    LET ys == DropNa([i \in DOMAIN d.rows |-> d.rows[i].by])
        common == int_series(mode(ys, IntRank(ys)))
    IN  \* int(NaN): min() and max() of no values
        IF Len(ys) = 0 THEN Raise("ValueError")
        ELSE IF Raised(common) THEN common
        ELSE Return([earliest_year |->
                        CHOOSE y \in Range(ys) : \A z \in Range(ys) : y <= z,
                     recent_year |->
                        CHOOSE y \in Range(ys) : \A z \in Range(ys) : y >= z,
                     common_year |-> Val(common)])

\* calc_user_unfo(data)
calc_user_unfo(d) ==
    IF COLS.user_type \notin d.cols THEN Raise("KeyError")
    ELSE
    LET type_count ==
            value_counts(DropNa([i \in DOMAIN d.rows |-> d.rows[i].ut]))
        gender_count ==
            IF COLS.gender \in d.cols
            THEN Some(value_counts(DropNa([i \in DOMAIN d.rows |-> d.rows[i].g])))
            ELSE None
        by == birth_years(d)
    IN  IF COLS.birth_year \in d.cols
        THEN IF Raised(by) THEN by
             ELSE Return([type_count |-> type_count,
                          gender_count |-> gender_count,
                          earliest_year |-> Some(Val(by).earliest_year),
                          recent_year |-> Some(Val(by).recent_year),
                          common_year |-> Some(Val(by).common_year)])
        ELSE Return([type_count |-> type_count,
                     gender_count |-> gender_count,
                     earliest_year |-> None,
                     recent_year |-> None,
                     common_year |-> None])

(***************************************************************************)
(* Tables: the columns present, whether the two time columns hold          *)
(* datetimes (or the texts of the file), and the rows                      *)
(***************************************************************************)
\* Largest number of rows of a table.
MaxRows == 3

SeqsUpTo(S, n) == UNION {[1..k -> S] : k \in 0..n}

MkRow(idx, start, end, ss, es, ut, g, by) ==
    [idx |-> idx, start |-> start, end |-> end,
     dur |-> (end - start) * 3600, ss |-> ss, es |-> es, ut |-> ut,
     g |-> g, by |-> by]

\* Start times: Jan 1 00:00 (Sunday), Jan 1 05:00, Jan 2 09:00 (Monday),
\* Jan 2 10:00, Feb 1 12:00 (Wednesday), Feb 1 17:00, Mar 1 23:00
\* (Wednesday), Mar 2 17:00 (Thursday).
TimeSamples == {0, 5, 33, 34, 756, 761, 1439, 1457}

\* Tables that differ in their start times; every hour of the day occurs.
TimesTables ==
    {[cols |-> AllCols, datetimes |-> TRUE,
      rows |-> [i \in DOMAIN s |->
                   MkRow(i - 1, s[i], s[i] + 1, "A", "B", Some("Subscriber"),
                         NaN, NaN)]] :
        s \in SeqsUpTo(TimeSamples, MaxRows) \cup {<<h>> : h \in 0..23}}

StationNames == {"A", "B", "C"}

\* Tables that differ in their stations.
StationsTables ==
    {[cols |-> AllCols, datetimes |-> TRUE,
      rows |-> [i \in DOMAIN s |->
                   MkRow(i - 1, 0, 1, s[i][1], s[i][2], Some("Subscriber"),
                         NaN, NaN)]] :
        s \in SeqsUpTo(StationNames \X StationNames, MaxRows)}

UserTypes == {NaN, Some("Subscriber"), Some("Customer")}
Genders == {NaN, Some("Male"), Some("Female")}
BirthYears == {NaN, Some(1980), Some(1990)}

\* Tables that differ in their gender and birth-year columns, with and
\* without each of the two (a column that is absent has no values), and
\* tables that differ in their user types.
UserTables ==
    UNION {
        {[cols |-> AllCols \ absent, datetimes |-> TRUE,
          rows |-> [i \in DOMAIN s |->
                       MkRow(i - 1, 0, 1, "A", "B", Some("Subscriber"),
                             s[i][1], s[i][2])]] :
            s \in SeqsUpTo(
                    (IF COLS.gender \in absent THEN {NaN} ELSE Genders)
                    \X (IF COLS.birth_year \in absent THEN {NaN} ELSE BirthYears),
                    MaxRows)} :
        absent \in SUBSET {COLS.gender, COLS.birth_year}}
    \cup
    {[cols |-> AllCols, datetimes |-> TRUE,
      rows |-> [i \in DOMAIN s |->
                   MkRow(i - 1, 0, 1, "A", "B", s[i], Some("Male"), Some(1980))]] :
        s \in SeqsUpTo(UserTypes, MaxRows)}

\* Rows as <<start, end, stored duration in seconds>>: trips of 1h and of
\* 3h, and one whose end is before its start, each stored with a duration
\* that is not its own.
DurationKinds == {<<0, 1>>, <<0, 3>>, <<5, 6>>, <<6, 5>>} \X {60, 10800}

\* Tables that differ in their times and their stored durations, with and
\* without the 'Trip Duration' column.
DurationTables ==
    {[cols |-> AllCols \ absent, datetimes |-> TRUE,
      rows |-> [i \in DOMAIN s |->
                   [MkRow(i - 1, s[i][1][1], s[i][1][2], "A", "B", Some("Subscriber"),
                          NaN, NaN) EXCEPT !.dur = s[i][2]]]] :
        s \in SeqsUpTo(DurationKinds, MaxRows),
        absent \in {{}, {COLS.duration}}}

(***************************************************************************)
(* The statistics functions on their own: one call on one table            *)
(***************************************************************************)
Idle ==
    /\ disk = <<>>
    /\ choices = <<>>
    /\ files_dict = <<>>
    /\ file_path = None
    /\ month_dict = <<>>
    /\ month = None
    /\ day_of_week = None
    /\ last_sel = None
    /\ out = <<>>
    /\ err = None
    /\ row_i = 0

StatsInit ==
    /\ Idle
    /\ result = <<>>
    /\ \/ pc = "call_popular_times" /\ data \in TimesTables
       \/ pc = "call_popular_stations" /\ data \in StationsTables
       \/ pc = "call_trip_durations" /\ data \in DurationTables
       \/ pc = "call_user_unfo" /\ data \in UserTables
    /\ loaded = data

Called(fn, r) == [fn |-> fn, r |-> r]

CallPopularTimes ==
    /\ pc = "call_popular_times"
    /\ result' = <<Called("calc_popular_times", calc_popular_times(data))>>
    /\ pc' = "returned"
    /\ UNCHANGED <<disk, choices, files_dict, file_path, loaded, data,
                   month_dict, month, day_of_week, last_sel, out, err, row_i>>

CallPopularStations ==
    /\ pc = "call_popular_stations"
    /\ result' = <<Called("calc_popular_stations", calc_popular_stations(data))>>
    /\ pc' = "returned"
    /\ UNCHANGED <<disk, choices, files_dict, file_path, loaded, data,
                   month_dict, month, day_of_week, last_sel, out, err, row_i>>

CallTripDurations ==
    /\ pc = "call_trip_durations"
    /\ result' = <<Called("calc_trip_durations", calc_trip_durations(data))>>
    /\ pc' = "returned"
    /\ UNCHANGED <<disk, choices, files_dict, file_path, loaded, data,
                   month_dict, month, day_of_week, last_sel, out, err, row_i>>

CallUserInfo ==
    /\ pc = "call_user_unfo"
    /\ result' = <<Called("calc_user_unfo", calc_user_unfo(data))>>
    /\ pc' = "returned"
    /\ UNCHANGED <<disk, choices, files_dict, file_path, loaded, data,
                   month_dict, month, day_of_week, last_sel, out, err, row_i>>

StatsNext ==
    \/ CallPopularTimes
    \/ CallPopularStations
    \/ CallTripDurations
    \/ CallUserInfo

SpecStats == StatsInit /\ [][StatsNext]_vars

\* The call of fn has been made (alone, not from show_calcs).
Returned(fn) == pc = "returned" /\ result[1].fn = fn

(***************************************************************************)
(* Claims about the statistics functions (checked under SpecStats)         *)
(***************************************************************************)
\* How often value v occurs among the values f[i].
Freq(v, f) == Cardinality({i \in DOMAIN f : f[i] = v})

\* The smallest of the integers that occur most often in f (f not empty).
SmallestMostFrequent(f) ==
    CHOOSE v \in Range(f) :
        /\ \A w \in Range(f) : Freq(w, f) <= Freq(v, f)
        /\ \A w \in Range(f) : Freq(w, f) = Freq(v, f) => v <= w

StartMonths == [i \in DOMAIN data.rows |-> dt_month(data.rows[i].start)]
StartDays == [i \in DOMAIN data.rows |-> dt_dayofweek(data.rows[i].start)]
StartHours == [i \in DOMAIN data.rows |-> dt_hour(data.rows[i].start)]

\* The two-digit 12-hour clock text of hour h of the day, with AM or PM.
Clock12(h) ==
    LET n == ((h + 11) % 12) + 1
    IN  <<Digits[(n \div 10) + 1], Digits[(n % 10) + 1], " ",
          IF h <= 11 THEN "A" ELSE "P", "M">>

\* C4: for every table whose most frequent start hour is h alone, for any h
\* in 0..23, calc_popular_times returns (does not raise) and its hour is
\* the 12-hour clock text of h.
C4_HourIsClock12 ==
    Returned("calc_popular_times") /\ Len(data.rows) > 0 =>
        \A h \in 0..23 :
            (\A i \in DOMAIN StartHours :
                StartHours[i] # h => Freq(StartHours[i], StartHours) < Freq(h, StartHours))
            /\ h \in Range(StartHours)
            => /\ ~Raised(result[1].r)
               /\ Val(result[1].r).hour = Clock12(h)

\* C5: for every non-empty table calc_popular_times returns the month, the
\* weekday and the hour that are the smallest of the most frequent start
\* months, weekdays and hours.
C5_SmallestModes ==
    Returned("calc_popular_times") /\ Len(data.rows) > 0 =>
        /\ ~Raised(result[1].r)
        /\ Val(result[1].r).month = month_name[SmallestMostFrequent(StartMonths)]
        /\ Val(result[1].r).day_of_week =
               day_name[SmallestMostFrequent(StartDays) + 1]
        /\ Val(result[1].r).hour = Clock12(SmallestMostFrequent(StartHours))

\* The month and weekday parts of C5 alone, whenever a result is returned.
ModesOfMonthAndDay ==
    Returned("calc_popular_times") /\ ~Raised(result[1].r) =>
        /\ Val(result[1].r).month = month_name[SmallestMostFrequent(StartMonths)]
        /\ Val(result[1].r).day_of_week =
               day_name[SmallestMostFrequent(StartDays) + 1]

Pairs == [i \in DOMAIN data.rows |-> <<data.rows[i].ss, data.rows[i].es>>]

\* The row at which pair p is first encountered.
FirstRow(p) == CHOOSE i \in DOMAIN Pairs : Pairs[i] = p /\ \A j \in 1..(i - 1) : Pairs[j] # p

MostFrequentPairs == {p \in Range(Pairs) : \A q \in Range(Pairs) : Freq(q, Pairs) <= Freq(p, Pairs)}

\* C6 as stated: the trip is a most frequent pair, and of the most frequent
\* pairs the one encountered first in row order.
C6_FirstEncounteredPair ==
    Returned("calc_popular_stations") /\ Len(data.rows) > 0 =>
        /\ ~Raised(result[1].r)
        /\ Val(result[1].r).trip \in MostFrequentPairs
        /\ \A q \in MostFrequentPairs : FirstRow(Val(result[1].r).trip) <= FirstRow(q)

\* p comes before q in the order of (start station, end station).
PairBefore(p, q) ==
    \/ NameRank(p[1]) < NameRank(q[1])
    \/ p[1] = q[1] /\ NameRank(p[2]) < NameRank(q[2])

\* C6 (amended): the trip is a most frequent pair, and of the most frequent
\* pairs the smallest in the order of (start station, end station).
C6_SmallestPair ==
    Returned("calc_popular_stations") /\ Len(data.rows) > 0 =>
        /\ ~Raised(result[1].r)
        /\ Val(result[1].r).trip \in MostFrequentPairs
        /\ \A q \in MostFrequentPairs \ {Val(result[1].r).trip} :
               PairBefore(Val(result[1].r).trip, q)

\* C6 witness: a result for a table where several pairs are most frequent
\* and the one encountered first is not the one returned.
C6_Witness ==
    /\ Returned("calc_popular_stations")
    /\ ~Raised(result[1].r)
    /\ Cardinality(MostFrequentPairs) > 1
    /\ \E q \in MostFrequentPairs : FirstRow(q) < FirstRow(Val(result[1].r).trip)

\* The birth years present in the table.
Years == {data.rows[i].by[1] : i \in {j \in DOMAIN data.rows : data.rows[j].by # NaN}}
YearSeq == DropNa([i \in DOMAIN data.rows |-> data.rows[i].by])

\* C7: with the Birth Year column present (and a year in it),
\* calc_user_unfo returns the minimum, the maximum and the smallest of the
\* most frequent years; it returns also when several years tie.
C7_BirthYearStats ==
    Returned("calc_user_unfo") /\ COLS.birth_year \in data.cols /\ Years # {} =>
        /\ ~Raised(result[1].r)
        /\ Val(result[1].r).earliest_year # None
        /\ \A y \in Years : Val(result[1].r).earliest_year[1] <= y
        /\ Val(result[1].r).earliest_year[1] \in Years
        /\ \A y \in Years : Val(result[1].r).recent_year[1] >= y
        /\ Val(result[1].r).recent_year[1] \in Years
        /\ Val(result[1].r).common_year[1] = SmallestMostFrequent(YearSeq)

\* The parts of C7 that do not involve a tie: whenever a result is returned.
BirthYearStatsWhenReturned ==
    Returned("calc_user_unfo") /\ COLS.birth_year \in data.cols
    /\ ~Raised(result[1].r) =>
        /\ \A y \in Years : Val(result[1].r).earliest_year[1] <= y
        /\ \A y \in Years : Val(result[1].r).recent_year[1] >= y
        /\ Val(result[1].r).common_year[1] = SmallestMostFrequent(YearSeq)

\* C10: for a table with rows calc_user_unfo returns, and gender_count is None exactly when the
\* Gender column is absent, and each of the three year results is None
\* exactly when the Birth Year column is absent.
C10_PresenceGoverns ==
    Returned("calc_user_unfo") /\ Len(data.rows) > 0 =>
        /\ ~Raised(result[1].r)
        /\ (Val(result[1].r).gender_count = None) = (COLS.gender \notin data.cols)
        /\ \A y \in {Val(result[1].r).earliest_year,
                     Val(result[1].r).recent_year,
                     Val(result[1].r).common_year} :
               (y = None) = (COLS.birth_year \notin data.cols)

\* The sentinel part of C10, whenever a result is returned.
SentinelIffAbsent ==
    Returned("calc_user_unfo") /\ ~Raised(result[1].r) =>
        /\ (Val(result[1].r).gender_count = None) = (COLS.gender \notin data.cols)
        /\ \A y \in {Val(result[1].r).earliest_year,
                     Val(result[1].r).recent_year,
                     Val(result[1].r).common_year} :
               (y = None) = (COLS.birth_year \notin data.cols)

\* The rows of the table whose user type is v.
RowsOfType(v) == {i \in DOMAIN data.rows : data.rows[i].ut = Some(v)}

\* C12: whenever calc_user_unfo returns, type_count holds one <<user type,
\* count>> pair per distinct user type of the table and no other pair, each
\* count is the number of rows of that type, the counts add up to the
\* number of rows that have a user type, and no count is larger than the
\* one before it.
C12_TypeCounts ==
    Returned("calc_user_unfo") /\ ~Raised(result[1].r) =>
        LET tc == Val(result[1].r).type_count
        IN  /\ \A i \in DOMAIN tc :
                   /\ RowsOfType(tc[i][1]) # {}
                   /\ tc[i][2] = Cardinality(RowsOfType(tc[i][1]))
            /\ \A i, j \in DOMAIN tc : i # j => tc[i][1] # tc[j][1]
            /\ \A k \in DOMAIN data.rows :
                   data.rows[k].ut # NaN =>
                       \E i \in DOMAIN tc : Some(tc[i][1]) = data.rows[k].ut
            /\ SumSeq([i \in DOMAIN tc |-> tc[i][2]])
                   = Cardinality({k \in DOMAIN data.rows : data.rows[k].ut # NaN})
            /\ \A i, j \in DOMAIN tc : i < j => tc[i][2] >= tc[j][2]

\* C12 witness: user types Customer, Subscriber, Subscriber gave Subscriber
\* with 2 before Customer with 1.
C12_Witness ==
    /\ Returned("calc_user_unfo")
    /\ [i \in DOMAIN data.rows |-> data.rows[i].ut]
           = <<Some("Customer"), Some("Subscriber"), Some("Subscriber")>>
    /\ ~Raised(result[1].r)
    /\ Val(result[1].r).type_count = <<<<"Subscriber", 2>>, <<"Customer", 1>>>>

\* Seconds from the start time to the end time of row i of the table.
RowSeconds(i) == (data.rows[i].end - data.rows[i].start) * 3600

\* The sum of RowSeconds over the first n rows.
RECURSIVE SecondsUpTo(_)
SecondsUpTo(n) == IF n = 0 THEN 0 ELSE SecondsUpTo(n - 1) + RowSeconds(n)

\* The table called on with the stored durations durs instead of its own,
\* and with or without the 'Trip Duration' column.
WithDurations(durs, stored) ==
    [data EXCEPT
        !.cols = IF stored THEN @ \cup {COLS.duration} ELSE @ \ {COLS.duration},
        !.rows = [i \in DOMAIN @ |-> [@[i] EXCEPT !.dur = durs[i]]]]

\* C11: calc_trip_durations returns as total the sum over all rows of (end
\* time - start time), as average that sum divided by the number of rows
\* (of a non-empty table), and every table that differs only in the stored
\* 'Trip Duration' column gives the same two results.
C11_DurationsFromTimestamps ==
    Returned("calc_trip_durations") =>
        LET r == result[1].r
            n == Len(data.rows)
        IN  /\ ~Raised(r)
            /\ Val(r).total_time = Some(TimedeltaStr(SecondsUpTo(n)))
            /\ n > 0 =>
                   /\ SecondsUpTo(n) % n = 0
                   /\ Val(r).avg_time = Some(TimedeltaStr(SecondsUpTo(n) \div n))
            /\ \A durs \in [DOMAIN data.rows -> {60, 10800}], stored \in BOOLEAN :
                   calc_trip_durations(WithDurations(durs, stored)) = r

\* C11 witness: rows of 1h and 3h, stored with durations of one minute and
\* of three hours, gave a total of 4h and a mean of 2h.
C11_Witness ==
    /\ Returned("calc_trip_durations")
    /\ Len(data.rows) = 2
    /\ RowSeconds(1) = 3600 /\ data.rows[1].dur = 60
    /\ RowSeconds(2) = 10800 /\ data.rows[2].dur = 10800
    /\ Val(result[1].r).total_time = Some([days |-> 0, hh |-> 4, mm |-> 0, ss |-> 0])
    /\ Val(result[1].r).avg_time = Some([days |-> 0, hh |-> 2, mm |-> 0, ss |-> 0])

(***************************************************************************)
(* lib/util.py                                                             *)
(***************************************************************************)
\* format_file_name(path)
format_file_name(path) ==
    title(replace_underscores(BeforeFirst(AfterLast(path, "/"), ".")))

\* get_days_dict(True): day name -> day number, as <<name, number>> pairs.
days_of_week_dict == [i \in DOMAIN day_name |-> <<day_name[i], i - 1>>]

\* get_unique_months reading the start times only.
get_unique_months_start_only(d) ==
    LET start_months == [i \in DOMAIN d.rows |-> dt_month(d.rows[i].start)]
    IN  Sorted(Range(start_months), IntRank(start_months))

\* get_unique_months(data): the months of the start and the end times,
\* each once, ascending.
get_unique_months(d) ==
    LET start_months == [i \in DOMAIN d.rows |-> dt_month(d.rows[i].start)]
        end_months == [i \in DOMAIN d.rows |-> dt_month(d.rows[i].end)]
        both == start_months \o end_months
    IN  Sorted(Range(both), IntRank(both))

\* convert_datetimes(data): needs both time columns, and makes their texts
\* datetimes.
convert_datetimes(d) ==
    IF COLS.start_time \in d.cols /\ COLS.end_time \in d.cols
    THEN Return([d EXCEPT !.datetimes = TRUE])
    ELSE Raise("KeyError")

(***************************************************************************)
(* Dictionaries (insertion-ordered) as sequences of <<key, value>>         *)
(***************************************************************************)
Keys(dict) == [i \in DOMAIN dict |-> dict[i][1]]
Lookup(dict, k) == dict[CHOOSE i \in DOMAIN dict : dict[i][1] = k][2]

\* dict[k] = v: a new key goes last, a known key keeps its place.
DictSet(dict, k, v) ==
    IF \E i \in DOMAIN dict : dict[i][1] = k
    THEN [i \in DOMAIN dict |-> IF dict[i][1] = k THEN <<k, v>> ELSE dict[i]]
    ELSE Append(dict, <<k, v>>)

(***************************************************************************)
(* lib/interface.py                                                        *)
(***************************************************************************)
valid_choices == {<<"y", "e", "s">>, <<"n", "o">>, <<"y">>, <<"n">>}

\* ask_question on one line of input: None to ask again, else the answer.
ask_question(inp) ==
    IF lower(inp) \notin valid_choices THEN None
    ELSE Some(lower(inp) = <<"y", "e", "s">> \/ lower(inp) = <<"y">>)

\* is_selection_valid(choices, choice); int() may raise.
is_selection_valid(chs, choice) ==
    IF ~isnumeric(choice) THEN Return(FALSE)
    ELSE IF Raised(int(choice)) THEN int(choice)
    ELSE IF Val(int(choice)) < 0 \/ Val(int(choice)) > Len(chs)
         THEN Return(FALSE)
         ELSE Return(TRUE)

\* get_selection on one line of input: Return(None) to prompt again,
\* Return(Some(item)) when it returns item, or the exception raised.
get_selection(chs, choice) ==
    LET valid == is_selection_valid(chs, choice)
        item == PyIndex(chs, Val(int(choice)) - 1)
    IN  IF Raised(valid) THEN valid
        ELSE IF ~Val(valid) THEN Return(None)
        ELSE IF Raised(item) THEN item
        ELSE Return(Some(Val(item)))

\* data[data['Start Time'].dt.month == month]
filter_month(d, m) ==
    LET keep(r) == dt_month(r.start) = m
    IN  [d EXCEPT !.rows = SelectSeq(d.rows, keep)]

\* filter_day reading the end times.
filter_day_end_time(d, w) ==
    LET keep(r) == dt_dayofweek(r.end) = w
    IN  [d EXCEPT !.rows = SelectSeq(d.rows, keep)]

\* data[data['Start Time'].dt.dayofweek == day_of_week]
filter_day(d, w) ==
    LET keep(r) == dt_dayofweek(r.start) = w
    IN  [d EXCEPT !.rows = SelectSeq(d.rows, keep)]

\* show_calcs with the user information first.
show_calcs_calls_user_first(d) ==
    LET c1 == Called("calc_popular_times", calc_popular_times(d))
        c2 == Called("calc_popular_stations", calc_popular_stations(d))
        c3 == Called("calc_trip_durations", calc_trip_durations(d))
        c4 == Called("calc_user_unfo", calc_user_unfo(d))
    IN  IF Raised(c4.r) THEN <<c4>>
        ELSE IF Raised(c1.r) THEN <<c4, c1>>
        ELSE IF Raised(c2.r) THEN <<c4, c1, c2>>
        ELSE <<c4, c1, c2, c3>>

\* The calc_* calls show_calcs makes on d, in order, up to the first that
\* raises.
show_calcs_calls(d) ==
    LET c1 == Called("calc_popular_times", calc_popular_times(d))
        c2 == Called("calc_popular_stations", calc_popular_stations(d))
        c3 == Called("calc_trip_durations", calc_trip_durations(d))
        c4 == Called("calc_user_unfo", calc_user_unfo(d))
    IN  IF Raised(c1.r) THEN <<c1>>
        ELSE IF Raised(c2.r) THEN <<c1, c2>>
        ELSE IF Raised(c3.r) THEN <<c1, c2, c3>>
        ELSE <<c1, c2, c3, c4>>

Sections == <<"Popular Times", "Popular Stations", "Trip Durations", "User Info">>
SectionOf ==
    [calc_popular_times |-> Sections[1], calc_popular_stations |-> Sections[2],
     calc_trip_durations |-> Sections[3], calc_user_unfo |-> Sections[4]]

Printed(sec, rows) == [sec |-> sec, rows |-> rows]

\* What show_calcs prints: the section of each call that returned.
show_calcs_out(calls) ==
    LET ok == SelectSeq(calls, LAMBDA c : ~Raised(c.r))
    IN  [i \in DOMAIN ok |-> Printed(SectionOf[ok[i].fn], <<>>)]

\* show_raw_data's default page_size.
page_size == 5

\* A slice that takes the row at its stop as well.
iloc_page_inclusive(d, i) ==
    [k \in 1..Max(0, Min(Len(d.rows), i + page_size + 1) - i) |-> d.rows[i + k].idx]

\* data.iloc[i:i+page_size]: the index labels of the rows displayed.
iloc_page(d, i) ==
    [k \in 1..Max(0, Min(Len(d.rows), i + page_size) - i) |-> d.rows[i + k].idx]

(***************************************************************************)
(* The data folder and what the files hold                                 *)
(***************************************************************************)
\* Largest number of files in the data folder.
MaxFiles == 2

\* Largest number of rows of a file main() loads.
MaxFileRows == 2

\* Largest number of pages of raw data the user asks for.
MaxPages == 2

DATA_FOLDER == <<"d", "a", "t", "a">>

\* File names: a_b.csv, A_B.csv and notes.txt.
FileNames ==
    {<<"a", "_", "b", ".", "c", "s", "v">>,
     <<"A", "_", "B", ".", "c", "s", "v">>,
     <<"n", "o", "t", "e", "s", ".", "t", "x", "t">>}

\* The folder's listings: up to MaxFiles different names, in any order.
DiskListings ==
    {s \in SeqsUpTo(FileNames, MaxFiles) :
        \A i, j \in DOMAIN s : i # j => s[i] # s[j]}

\* glob.glob(os.path.join(path, "*.csv")) on a folder holding names.
glob_data_files(path, names) ==
    LET csv == <<".", "c", "s", "v">>
        matches(n) ==
            /\ Len(n) >= Len(csv)
            /\ SubSeq(n, Len(n) - Len(csv) + 1, Len(n)) = csv
            /\ n[1] # "."
        hits == SelectSeq(names, matches)
    IN  [i \in DOMAIN hits |-> path \o <<"/">> \o hits[i]]

\* main: data_files_dict, filled in the order of data_files.
RECURSIVE files_dict_of(_)
files_dict_of(data_files) ==
    IF Len(data_files) = 0 THEN <<>>
    ELSE LET file == data_files[Len(data_files)]
         IN  DictSet(files_dict_of(SubSeq(data_files, 1, Len(data_files) - 1)),
                     format_file_name(file), file)

\* get_filtered_data: month_dict, filled in the order of unique_months.
month_dict_of(unique_months) ==
    [i \in DOMAIN unique_months |->
        <<month_name[unique_months[i]], unique_months[i]>>]

\* Rows of the files, as <<start, end, birth year>>: Jan 1 (Sunday)
\* 05:00-06:00; Jan 31 (Tuesday) 23:00 to Feb 1 00:00; Feb 1 (Wednesday)
\* 12:00-13:00, the last with another birth year.
FileRowKinds == {<<5, 6, 1980>>, <<743, 744, 1980>>, <<756, 757, 1990>>}

\* The tables pd.read_csv may return: with every column, and one-row
\* tables without one or both optional columns or without another column.
FileTables ==
    {[cols |-> AllCols, datetimes |-> FALSE,
      rows |-> [i \in DOMAIN s |->
                   MkRow(i - 1, s[i][1], s[i][2], "A", "B", Some("Subscriber"),
                         Some("Male"), Some(s[i][3]))]] :
        s \in SeqsUpTo(FileRowKinds, MaxFileRows)}
    \cup
    {[cols |-> AllCols \ missing, datetimes |-> FALSE,
      rows |-> <<MkRow(0, 756, 757, "A", "B", Some("Subscriber"),
                       IF COLS.gender \in missing THEN NaN ELSE Some("Male"),
                       IF COLS.birth_year \in missing THEN NaN ELSE Some(1980))>>] :
        missing \in {{COLS.start_time}, {COLS.end_station}, {COLS.gender},
                     {COLS.birth_year}, {COLS.gender, COLS.birth_year},
                     {COLS.duration}}}

\* load_raw_data(file): the table read, or the error of a file that cannot
\* be read.
load_raw_data == {Return(t) : t \in FileTables} \cup {Raise("FileNotFoundError")}

\* main's data before the first load.
NoData == [cols |-> {}, datetimes |-> FALSE, rows |-> <<>>]

(***************************************************************************)
(* bikeshare.py: main()                                                    *)
(***************************************************************************)
\* Lines the user may type at a numbered menu.
SelectionInputs ==
    {<<>>, <<"x">>, <<"-", "1">>, <<"0", "1">>, <<"1", "0">>, <<Superscript2>>}
    \cup {<<Digits[i]>> : i \in DOMAIN Digits}

\* Lines the user may type at a yes/no question.
AnswerInputs ==
    {<<"y", "e", "s">>, <<"n", "o">>, <<"y">>, <<"n">>, <<"Y", "e", "s">>,
     <<"N">>, <<>>, <<"x">>}

\* The top of main's loop, up to the file menu's prompt.
CycleStart(dk, p, fd, ch, fp, ld, md, m, dw, ls, res, o, ri) ==
    /\ p = "select_file"
    /\ fd = files_dict_of(glob_data_files(DATA_FOLDER, dk))
    /\ ch = Keys(fd)
    /\ fp = None
    /\ ld = NoData
    /\ md = <<>>
    /\ m = None
    /\ dw = None
    /\ ls = None
    /\ res = <<>>
    /\ o = <<>>
    /\ ri = 0

Init ==
    /\ disk \in DiskListings
    /\ data = NoData
    /\ err = None
    /\ CycleStart(disk, pc, files_dict, choices, file_path, loaded, month_dict,
                  month, day_of_week, last_sel, result, out, row_i)

\* An exception nothing catches ends the process.
Uncaught(exc, where) ==
    /\ pc' = "crashed"
    /\ err' = Some([exc |-> exc, where |-> where])

Selected(chs, inp, item) == Some([choices |-> chs, input |-> inp, item |-> item])

\* show_calcs(data), then main up to the raw-data question.
RunShowCalcs(d) ==
    LET calls == show_calcs_calls(d)
        last == calls[Len(calls)]
    IN  /\ result' = calls
        /\ out' = show_calcs_out(calls)
        /\ IF Raised(last.r)
           THEN Uncaught(last.r.exc, last.fn)
           ELSE pc' = "ask_raw" /\ err' = err

\* main after the file menu returned choice: load the file and convert it.
LoadChoice(inp, choice, content) ==
    LET conv == convert_datetimes(Val(content))
    IN  /\ last_sel' = Selected(choices, inp, choice)
        /\ file_path' = Some(Lookup(files_dict, choice))
        /\ UNCHANGED <<disk, choices, files_dict, month_dict, month,
                       day_of_week, result, out, row_i>>
        /\ IF Raised(content)
           THEN /\ Uncaught(content.exc, "load_raw_data")
                /\ UNCHANGED <<data, loaded>>
           ELSE IF Raised(conv)
           THEN /\ Uncaught(conv.exc, "convert_datetimes")
                /\ data' = Val(content)
                /\ UNCHANGED loaded
           ELSE /\ data' = Val(conv)
                /\ loaded' = Val(conv)
                /\ pc' = "ask_filter"
                /\ err' = err

\* The file menu takes a line; a valid one loads and converts the file.
SelectFile(inp) ==
    /\ pc = "select_file"
    /\ LET sel == get_selection(choices, inp)
       IN  IF Raised(sel)
           THEN /\ Uncaught(sel.exc, "get_selection")
                /\ UNCHANGED <<disk, choices, files_dict, file_path, loaded,
                               data, month_dict, month, day_of_week, last_sel,
                               result, out, row_i>>
           ELSE IF Val(sel) = None
           THEN UNCHANGED vars
           ELSE \E content \in load_raw_data :
                    LoadChoice(inp, Val(sel)[1], content)

\* "Would you like to filter the raw data before processing?"
AskFilter(inp) ==
    /\ pc = "ask_filter"
    /\ LET answer == ask_question(inp)
       IN  IF answer = None THEN UNCHANGED vars
           ELSE IF answer[1]
           THEN \* get_filtered_data up to its first question
                /\ month_dict' = month_dict_of(get_unique_months(data))
                /\ pc' = "ask_month"
                /\ UNCHANGED <<disk, choices, files_dict, file_path, loaded,
                               data, month, day_of_week, last_sel, result, out,
                               err, row_i>>
           ELSE /\ RunShowCalcs(data)
                /\ UNCHANGED <<disk, choices, files_dict, file_path, loaded,
                               data, month_dict, month, day_of_week, last_sel,
                               row_i>>

\* "Would you like to filter by month?"
AskMonth(inp) ==
    /\ pc = "ask_month"
    /\ LET answer == ask_question(inp)
       IN  IF answer = None THEN UNCHANGED vars
           ELSE /\ IF answer[1]
                   THEN pc' = "select_month" /\ choices' = Keys(month_dict)
                   ELSE pc' = "ask_day" /\ choices' = choices
                /\ UNCHANGED <<disk, files_dict, file_path, loaded, data,
                               month_dict, month, day_of_week, last_sel,
                               result, out, err, row_i>>

\* The month menu takes a line; a valid one filters the data.
SelectMonth(inp) ==
    /\ pc = "select_month"
    /\ LET sel == get_selection(choices, inp)
       IN  IF Raised(sel)
           THEN /\ Uncaught(sel.exc, "get_selection")
                /\ UNCHANGED <<disk, choices, files_dict, file_path, loaded,
                               data, month_dict, month, day_of_week, last_sel,
                               result, out, row_i>>
           ELSE IF Val(sel) = None
           THEN UNCHANGED vars
           ELSE /\ last_sel' = Selected(choices, inp, Val(sel)[1])
                /\ month' = Some(Lookup(month_dict, Val(sel)[1]))
                /\ data' = filter_month(data, Lookup(month_dict, Val(sel)[1]))
                /\ pc' = "ask_day"
                /\ UNCHANGED <<disk, choices, files_dict, file_path, loaded,
                               month_dict, day_of_week, result, out, err,
                               row_i>>

\* "Would you like to filter by day of the week?"
AskDay(inp) ==
    /\ pc = "ask_day"
    /\ LET answer == ask_question(inp)
       IN  IF answer = None THEN UNCHANGED vars
           ELSE IF answer[1]
           THEN /\ pc' = "select_day"
                /\ choices' = Keys(days_of_week_dict)
                /\ UNCHANGED <<disk, files_dict, file_path, loaded, data,
                               month_dict, month, day_of_week, last_sel,
                               result, out, err, row_i>>
           ELSE \* get_filtered_data returns
                /\ RunShowCalcs(data)
                /\ UNCHANGED <<disk, choices, files_dict, file_path, loaded,
                               data, month_dict, month, day_of_week, last_sel,
                               row_i>>

\* The weekday menu takes a line; a valid one filters the data, and
\* get_filtered_data returns.
SelectDay(inp) ==
    /\ pc = "select_day"
    /\ LET sel == get_selection(choices, inp)
       IN  IF Raised(sel)
           THEN /\ Uncaught(sel.exc, "get_selection")
                /\ UNCHANGED <<disk, choices, files_dict, file_path, loaded,
                               data, month_dict, month, day_of_week, last_sel,
                               result, out, row_i>>
           ELSE IF Val(sel) = None
           THEN UNCHANGED vars
           ELSE /\ last_sel' = Selected(choices, inp, Val(sel)[1])
                /\ day_of_week' = Some(Lookup(days_of_week_dict, Val(sel)[1]))
                /\ data' = filter_day(data, Lookup(days_of_week_dict, Val(sel)[1]))
                /\ RunShowCalcs(data')
                /\ UNCHANGED <<disk, choices, files_dict, file_path, loaded,
                               month_dict, month, row_i>>

\* "Would you like to see the paginated raw data?": yes shows the first page.
AskRaw(inp) ==
    /\ pc = "ask_raw"
    /\ LET answer == ask_question(inp)
       IN  IF answer = None THEN UNCHANGED vars
           ELSE /\ IF answer[1]
                   THEN /\ out' = Append(out, Printed("page", iloc_page(data, 0)))
                        /\ row_i' = page_size
                        /\ pc' = "ask_more"
                   ELSE /\ pc' = "ask_restart"
                        /\ UNCHANGED <<out, row_i>>
                /\ UNCHANGED <<disk, choices, files_dict, file_path, loaded,
                               data, month_dict, month, day_of_week, last_sel,
                               result, err>>

\* "Would you like to see more raw data?": yes shows the next page.
AskMore(inp) ==
    /\ pc = "ask_more"
    /\ LET answer == ask_question(inp)
       IN  IF answer = None THEN UNCHANGED vars
           ELSE /\ IF answer[1]
                   THEN /\ row_i < MaxPages * page_size
                        /\ out' = Append(out, Printed("page", iloc_page(data, row_i)))
                        /\ row_i' = row_i + page_size
                        /\ pc' = pc
                   ELSE /\ pc' = "ask_restart"
                        /\ UNCHANGED <<out, row_i>>
                /\ UNCHANGED <<disk, choices, files_dict, file_path, loaded,
                               data, month_dict, month, day_of_week, last_sel,
                               result, err>>

\* The listings the folder may show a cycle later: the same one, or one
\* with a file gone or a file more.
DiskChanges(dk) ==
    LET without(l, i) == SubSeq(l, 1, i - 1) \o SubSeq(l, i + 1, Len(l))
    IN  {l \in DiskListings :
            \/ l = dk
            \/ \E i \in DOMAIN dk : l = without(dk, i)
            \/ \E i \in DOMAIN l : dk = without(l, i)}

\* "Would you like to start over?" where any answer but no runs the loop
\* again with the menus and the filter choices it has.
AskRestart_keep_choices(inp) ==
    /\ pc = "ask_restart"
    /\ LET answer == ask_question(inp)
       IN  IF answer = None \/ answer[1]
           THEN /\ pc' = "select_file"
                /\ disk' \in DiskChanges(disk)
                /\ UNCHANGED <<choices, files_dict, file_path, loaded, data,
                               month_dict, month, day_of_week, last_sel,
                               result, out, err, row_i>>
           ELSE /\ pc' = "done"
                /\ UNCHANGED <<disk, choices, files_dict, file_path, loaded,
                               data, month_dict, month, day_of_week, last_sel,
                               result, out, err, row_i>>

\* "Would you like to start over?": yes runs the loop again, which globs
\* the data folder as it is by then; no ends main.
AskRestart(inp) ==
    /\ pc = "ask_restart"
    /\ LET answer == ask_question(inp)
       IN  IF answer = None THEN UNCHANGED vars
           ELSE IF answer[1]
           THEN /\ disk' \in DiskChanges(disk)
                /\ CycleStart(disk', pc', files_dict', choices', file_path',
                              loaded', month_dict', month', day_of_week',
                              last_sel', result', out', row_i')
                /\ UNCHANGED <<data, err>>
           ELSE /\ pc' = "done"
                /\ UNCHANGED <<disk, choices, files_dict, file_path, loaded,
                               data, month_dict, month, day_of_week, last_sel,
                               result, out, err, row_i>>

Next ==
    \/ \E inp \in SelectionInputs : SelectFile(inp)
    \/ \E inp \in AnswerInputs : AskFilter(inp)
    \/ \E inp \in AnswerInputs : AskMonth(inp)
    \/ \E inp \in SelectionInputs : SelectMonth(inp)
    \/ \E inp \in AnswerInputs : AskDay(inp)
    \/ \E inp \in SelectionInputs : SelectDay(inp)
    \/ \E inp \in AnswerInputs : AskRaw(inp)
    \/ \E inp \in AnswerInputs : AskMore(inp)
    \/ \E inp \in AnswerInputs : AskRestart(inp)

Spec == Init /\ [][Next]_vars

(***************************************************************************)
(* show_raw_data on its own: main's raw-data question on tables of more    *)
(* than one page                                                           *)
(***************************************************************************)
\* Largest number of rows of a table shown page by page.
MaxRawRows == 12

\* Tables of up to MaxRawRows rows, as loaded (labels 0, 1, 2, ...) and as
\* left by a filter (labels 0, 2, 4, ...).
RawTables ==
    {[cols |-> AllCols, datetimes |-> TRUE,
      rows |-> [i \in 1..n |->
                   MkRow(gap * (i - 1), 0, 1, "A", "B", Some("Subscriber"),
                         NaN, NaN)]] :
        n \in 0..MaxRawRows, gap \in {1, 2}}

RawInit ==
    /\ Idle
    /\ result = <<>>
    /\ pc = "ask_raw"
    /\ data \in RawTables
    /\ loaded = data

RawNext ==
    \/ \E inp \in AnswerInputs : AskRaw(inp)
    \/ \E inp \in AnswerInputs : AskMore(inp)

SpecRaw == RawInit /\ [][RawNext]_vars

(***************************************************************************)
(* Claims about main() (checked under Spec)                                *)
(***************************************************************************)
\* Row r passes the filters chosen in get_filtered_data.
Chosen(r) ==
    /\ month = None \/ dt_month(r.start) = month[1]
    /\ day_of_week = None \/ dt_dayofweek(r.start) = day_of_week[1]

\* C1: once get_filtered_data is over (show_calcs has run), the table holds
\* exactly the rows of the loaded table that pass every chosen filter, in
\* their original order; each row left out fails a chosen filter.
C1_FilterExact ==
    result # <<>> =>
        /\ data.cols = loaded.cols
        /\ \A i \in DOMAIN data.rows :
               /\ data.rows[i].idx + 1 \in DOMAIN loaded.rows
               /\ data.rows[i] = loaded.rows[data.rows[i].idx + 1]
               /\ Chosen(data.rows[i])
        /\ \A i, j \in DOMAIN data.rows :
               i < j => data.rows[i].idx < data.rows[j].idx
        /\ \A k \in DOMAIN loaded.rows :
               Chosen(loaded.rows[k]) =>
                   \E i \in DOMAIN data.rows : data.rows[i].idx = k - 1

\* C1 witness: a month and a weekday were chosen, some rows passed both, a
\* row that passed the month filter failed the weekday filter, and
\* show_calcs has printed its results.
C1_Witness ==
    /\ result # <<>>
    /\ month # None
    /\ day_of_week # None
    /\ pc = "ask_raw"
    /\ Len(data.rows) > 0
    /\ \E k \in DOMAIN loaded.rows :
           /\ dt_month(loaded.rows[k].start) = month[1]
           /\ dt_dayofweek(loaded.rows[k].start) # day_of_week[1]

\* C2: get_selection returns only for an input that is a decimal number k
\* with 1 <= k <= n, and then returns choices[k]; it ends in no exception.
C2_SelectionInRange ==
    /\ last_sel # None =>
           /\ Raised(int(last_sel[1].input)) = FALSE
           /\ Val(int(last_sel[1].input)) \in 1..Len(last_sel[1].choices)
           /\ last_sel[1].item = last_sel[1].choices[Val(int(last_sel[1].input))]
    /\ err # None => err[1].where # "get_selection"

\* C3: when the chosen filters leave no rows, show_calcs does not end in an
\* exception of a calc_* function, and the user is told that no data
\* matches.
C3_EmptyFilterSurfaced ==
    /\ result # <<>>
    /\ month # None \/ day_of_week # None
    /\ Len(loaded.rows) > 0
    /\ Len(data.rows) = 0
    => /\ pc # "crashed"
       /\ \E i \in DOMAIN out : out[i].sec = "no data matches this filter"

MonthNumber(name) == CHOOSE m \in DOMAIN month_name : month_name[m] = name

\* C8: the month menu lists exactly the months of the start and end times
\* of the loaded rows, each once, in ascending order of month number.
C8_MonthMenu ==
    pc = "select_month" =>
        /\ \A i \in DOMAIN choices :
               \E k \in DOMAIN loaded.rows :
                   \/ choices[i] = month_name[dt_month(loaded.rows[k].start)]
                   \/ choices[i] = month_name[dt_month(loaded.rows[k].end)]
        /\ \A k \in DOMAIN loaded.rows :
               /\ month_name[dt_month(loaded.rows[k].start)] \in Range(choices)
               /\ month_name[dt_month(loaded.rows[k].end)] \in Range(choices)
        /\ \A i, j \in DOMAIN choices :
               i < j => MonthNumber(choices[i]) < MonthNumber(choices[j])

\* C8 witness: a menu of two months, one of them the month of an end time
\* and of no start time.
C8_Witness ==
    /\ pc = "select_month"
    /\ Len(choices) = 2
    /\ \E i \in DOMAIN choices :
           \A k \in DOMAIN loaded.rows :
               choices[i] # month_name[dt_month(loaded.rows[k].start)]

\* The columns the program reads.
NeededCols ==
    {COLS.start_time, COLS.end_time, COLS.start_station, COLS.end_station,
     COLS.user_type}

\* C9: a file that cannot be loaded, or a table without a needed column,
\* does not end the process.
C9_LoadFailureKeepsRunning ==
    pc = "crashed" =>
        /\ err[1].where \notin {"load_raw_data", "convert_datetimes"}
        /\ ~(err[1].exc = "KeyError" /\ ~(NeededCols \subseteq data.cols))


\* C13: at the file menu there is one entry per *.csv file of the data
\* folder, and every such file has an entry, named by format_file_name,
\* whose selection loads that file.
C13_EveryFileOffered ==
    pc = "select_file" =>
        LET data_files == glob_data_files(DATA_FOLDER, disk)
        IN  /\ Len(choices) = Len(data_files)
            /\ \A k \in DOMAIN data_files :
                   \E i \in DOMAIN choices :
                       /\ choices[i] = format_file_name(data_files[k])
                       /\ Lookup(files_dict, choices[i]) = data_files[k]


\* The places of main where get_filtered_data has not returned yet.
FilterPrompts == {"ask_filter", "ask_month", "select_month", "ask_day", "select_day"}

\* What show_calcs has printed (the pages of raw data left out).
Summaries == SelectSeq(out, LAMBDA p : p.sec # "page")

\* The i-th calculation of the documented order on table d.
CalcInOrder(i, d) ==
    CASE i = 1 -> Called("calc_popular_times", calc_popular_times(d))
      [] i = 2 -> Called("calc_popular_stations", calc_popular_stations(d))
      [] i = 3 -> Called("calc_trip_durations", calc_trip_durations(d))
      [] i = 4 -> Called("calc_user_unfo", calc_user_unfo(d))

\* C14: within a cycle the file is loaded and its timestamps are converted
\* before any filter or calculation; nothing is calculated or printed
\* before the filter prompts are over; the summaries printed are the first
\* ones of Popular Times, Popular Stations, Trip Durations, User Info in
\* that order, each calculated on the one table left by the filters, and
\* all four once show_calcs has returned; pages of raw data come after.
C14_CycleOrder ==
    /\ pc \in FilterPrompts \/ month # None \/ day_of_week # None \/ result # <<>>
           => file_path # None /\ loaded.datetimes /\ data.datetimes
    /\ pc \in {"select_file"} \cup FilterPrompts => out = <<>> /\ result = <<>>
    /\ Len(result) <= 4
    /\ \A i \in DOMAIN result : result[i] = CalcInOrder(i, data)
    /\ Len(Summaries) = Cardinality({i \in DOMAIN result : ~Raised(result[i].r)})
    /\ \A i \in DOMAIN Summaries : Summaries[i].sec = Sections[i]
    /\ pc \in {"ask_raw", "ask_more", "ask_restart", "done"} => Len(Summaries) = 4
    /\ \A i, j \in DOMAIN out : i < j /\ out[i].sec = "page" => out[j].sec = "page"

\* C14 witness: a month was chosen and left fewer rows than were loaded,
\* and the four summaries of those rows have been printed.
C14_Witness ==
    /\ pc = "ask_raw"
    /\ month # None
    /\ 0 < Len(data.rows) /\ Len(data.rows) < Len(loaded.rows)
    /\ [i \in DOMAIN out |-> out[i].sec] = Sections


\* These values of the variables are the ones the top of main's loop
\* leaves at the file menu, whatever a cycle before it did.
FreshCycle(p, dk, fd, ch, fp, ld, md, m, dw, res, o, ri) ==
    /\ p = "select_file"
    /\ fd = files_dict_of(glob_data_files(DATA_FOLDER, dk))
    /\ ch = Keys(fd)
    /\ fp = None /\ ld = NoData
    /\ md = <<>> /\ m = None /\ dw = None
    /\ res = <<>> /\ o = <<>> /\ ri = 0

\* The step ends in such a state.
FreshCycleNext ==
    FreshCycle(pc', disk', files_dict', choices', file_path', loaded',
               month_dict', month', day_of_week', result', out', row_i')

\* The cycle has loaded a file and show_calcs has printed its summaries.
CycleComplete ==
    /\ file_path # None
    /\ loaded.datetimes
    /\ Len(result) = 4
    /\ [i \in 1..4 |-> out[i].sec] = Sections

\* The step is the 'start over' prompt taking the line inp.
RestartStep(inp) ==
    /\ pc = "ask_restart"
    /\ CASE ask_question(inp) = Some(TRUE) -> FreshCycleNext
         [] ask_question(inp) = Some(FALSE) -> pc' = "done"
         [] OTHER -> UNCHANGED vars

\* C15: every step that reaches the 'start over' prompt leaves a complete
\* cycle behind; at the prompt yes starts a fresh cycle (the data folder
\* globbed again, no table loaded, no filter chosen, nothing printed), no
\* ends main, and any other line asks again; main ends in no other step,
\* and the file menu is reached again from the prompt only.
C15_CyclesInTurn ==
    [][/\ pc' = "ask_restart" => CycleComplete'
       /\ pc = "ask_restart" => \E inp \in AnswerInputs : RestartStep(inp)
       /\ pc' = "done" => pc = "ask_restart"
       /\ pc' = "select_file" /\ pc # "select_file" =>
              pc = "ask_restart" /\ FreshCycleNext]_vars

\* C15 witness: the file menu of a later cycle (main still holds the table
\* of the cycle before, which nothing reads before the next load), with a
\* file to choose.
C15_Witness ==
    /\ FreshCycle(pc, disk, files_dict, choices, file_path, loaded,
                  month_dict, month, day_of_week, result, out, row_i)
    /\ data # NoData
    /\ Len(data.rows) > 0
    /\ Len(choices) = 1


(***************************************************************************)
(* Claims about show_raw_data (checked under SpecRaw)                      *)
(***************************************************************************)
\* The pages among what has been printed.
Pages(o) == SelectSeq(o, LAMBDA p : p.sec = "page")

\* The labels of the rows of table d at positions k * page_size up to
\* k * page_size + page_size - 1 (counted from 0) that exist.
RowsOfPage(d, k) ==
    LET here == {j \in DOMAIN d.rows :
                    k * page_size <= j - 1 /\ j - 1 <= k * page_size + page_size - 1}
    IN  [n \in 1..Cardinality(here) |-> d.rows[k * page_size + n].idx]

\* The pages printed are the first ones of the table, in order.
PagesInTurn(o, d) ==
    \A k \in DOMAIN Pages(o) : Pages(o)[k].rows = RowsOfPage(d, k - 1)

\* A step of the raw-data prompts on the line inp: at main's question yes
\* shows the first page; at show_raw_data's question yes shows the next
\* page, whether or not the table has rows left; no shows nothing more and
\* goes on to the 'start over' prompt; any other line asks again.
PagingStep(inp) ==
    CASE ask_question(inp) = Some(TRUE) ->
             /\ pc' = "ask_more"
             /\ Len(Pages(out')) = Len(Pages(out)) + 1
             /\ pc = "ask_raw" => Len(Pages(out')) = 1
      [] ask_question(inp) = Some(FALSE) ->
             pc' = "ask_restart" /\ out' = out
      [] OTHER -> UNCHANGED vars

\* C16: show_raw_data prints a first page before it asks anything; page k
\* (k = 0, 1, 2, ...) holds exactly the rows at positions k * page_size to
\* k * page_size + page_size - 1 that exist, so a page past the last row is
\* empty; and a further page is printed exactly when the user answers yes
\* to 'more raw data', whatever is left of the table.
C16_Paging ==
    [][/\ pc \in {"ask_raw", "ask_more"} =>
              \E inp \in AnswerInputs : PagingStep(inp)
       /\ pc' = "ask_more" => Len(Pages(out')) >= 1
       /\ row_i' = page_size * Len(Pages(out'))
       /\ PagesInTurn(out', data')]_vars

\* C16 witness: of a table of seven rows left by a filter the second page
\* has been shown, with the two rows after the five of the first page.
C16_Witness ==
    /\ pc = "ask_more"
    /\ Len(data.rows) = 7
    /\ data.rows[7].idx = 12
    /\ Len(Pages(out)) = 2
    /\ Pages(out)[1].rows = <<0, 2, 4, 6, 8>>
    /\ Pages(out)[2].rows = <<10, 12>>

\* A page past the last row: of a table of three rows a second page has been
\* shown, and it is empty.
EmptyPageShown ==
    /\ pc = "ask_more"
    /\ Len(data.rows) = 3
    /\ Len(Pages(out)) = 2
    /\ Pages(out)[2].rows = <<>>

====
